---------------------------- MODULE Spec2Model ----------------------------
(***************************************************************************)
(* prox-cli: the authenticated API-session client of                      *)
(* src/prox/libs/proxmox/pyproxmox.py (prox_auth, pyproxmox.connect and   *)
(* the endpoint wrappers) and the convenience functions of                *)
(* src/prox/libs/clusters_lib.py and src/prox/libs/network_lib.py.        *)
(*                                                                         *)
(* Python values whose type is dynamic (wrapper arguments, post_data,     *)
(* decoded JSON) are tagged records; values the code always holds as str  *)
(* (urls, paths, header values, conn_type) are TLA+ strings.              *)
(***************************************************************************)
EXTENDS Integers, Sequences, FiniteSets, TLC

(***************************************************************************)
(* Bounds of the model.                                                    *)
(***************************************************************************)
\* connect / wrapper / convenience invocations started in one behaviour
MaxCalls == 2

(***************************************************************************)
(* Python values.                                                          *)
(***************************************************************************)
None == [t |-> "none"]
Str(s) == [t |-> "str", s |-> s]
PyInt(n) == [t |-> "int", n |-> n]
Dict(d) == [t |-> "dict", d |-> d]

\* an attribute that has not been assigned on the object
Unset == [t |-> "unset"]
\* no object bound (the constructor has not returned)
NoObj == [t |-> "noobj"]

Digit(d) ==
    CASE d = 0 -> "0" [] d = 1 -> "1" [] d = 2 -> "2" [] d = 3 -> "3"
      [] d = 4 -> "4" [] d = 5 -> "5" [] d = 6 -> "6" [] d = 7 -> "7"
      [] d = 8 -> "8" [] d = 9 -> "9"

RECURSIVE IntStr(_)
IntStr(n) == IF n < 10 THEN Digit(n) ELSE IntStr(n \div 10) \o Digit(n % 10)

\* str(v) for the values the model passes to it
PyStr(v) ==
    CASE v.t = "str" -> v.s
      [] v.t = "int" -> IntStr(v.n)
      [] v.t = "none" -> "None"

\* fmt % args, for a format string whose only conversions are %s; the
\* format string is given in pieces, each conversion a piece of its own:
\* "nodes/%s/qemu" is <<"nodes/", "%s", "/qemu">>
RECURSIVE Format(_, _)
Format(fmt, args) ==
    IF fmt = <<>> THEN ""
    ELSE IF Head(fmt) = "%s"
         THEN PyStr(Head(args)) \o Format(Tail(fmt), Tail(args))
         ELSE Head(fmt) \o Format(Tail(fmt), args)

\* v[k] on a decoded JSON value: the value, or the exception Python raises
GetItem(v, k) ==
    IF v.t # "dict" THEN [ok |-> FALSE, exc |-> "TypeError"]
    ELSE IF k \notin DOMAIN v.d THEN [ok |-> FALSE, exc |-> "KeyError"]
    ELSE [ok |-> TRUE, v |-> v.d[k]]

(***************************************************************************)
(* The server side: response bodies and what response.json() makes of     *)
(* them.  A body outside the table is not valid JSON.                     *)
(***************************************************************************)
AuthBody1 == "{\"data\":{\"ticket\":\"T1\",\"CSRFPreventionToken\":\"C1\"}}"
AuthBody2 == "{\"data\":{\"ticket\":\"T2\",\"CSRFPreventionToken\":\"C2\"}}"
AuthNoCsrf == "{\"data\":{\"ticket\":\"T1\"}}"
AuthNoTicket == "{\"data\":{\"CSRFPreventionToken\":\"C1\"}}"
DataNull == "{\"data\":null}"
EmptyObj == "{}"
DataD1 == "{\"data\":\"D1\"}"
DataD2 == "{\"data\":\"D2\"}"
HtmlBody == "<html>502 Bad Gateway</html>"

JsonTable ==
    (AuthBody1 :> Dict([data |-> Dict([ticket |-> Str("T1"),
                                       CSRFPreventionToken |-> Str("C1")])]))
    @@ (AuthBody2 :> Dict([data |-> Dict([ticket |-> Str("T2"),
                                          CSRFPreventionToken |-> Str("C2")])]))
    @@ (AuthNoCsrf :> Dict([data |-> Dict([ticket |-> Str("T1")])]))
    @@ (AuthNoTicket :> Dict([data |-> Dict([CSRFPreventionToken |-> Str("C1")])]))
    @@ (DataNull :> Dict([data |-> None]))
    @@ (EmptyObj :> Dict(<<>>))
    @@ (DataD1 :> Dict([data |-> Str("D1")]))
    @@ (DataD2 :> Dict([data |-> Str("D2")]))

\* response.json(): the decoded value, or ValueError on a body that is not JSON
ResponseJson(resp) ==
    IF resp.body \in DOMAIN JsonTable
    THEN [ok |-> TRUE, v |-> JsonTable[resp.body]]
    ELSE [ok |-> FALSE, exc |-> "ValueError"]

Response(status, body) == [status |-> status, body |-> body]

\* the transport failed: requests raises instead of returning a response
TransportError == [status |-> 0, body |-> "ConnectionError"]

AuthReplies ==
    { Response(200, AuthBody1), Response(200, AuthBody2),
      Response(200, AuthNoCsrf), Response(200, AuthNoTicket),
      Response(401, DataNull), Response(200, EmptyObj),
      Response(502, HtmlBody), TransportError }

ApiReplies ==
    { Response(200, DataD1), Response(200, DataD2),
      Response(502, HtmlBody), TransportError }


(***************************************************************************)
(* Inputs.                                                                 *)
(***************************************************************************)
Hosts == {"pve1", "10.0.0.2"}
Usernames == {"root@pam"}
Passwords == {"secret"}

Threads == {1, 2}
\* the thread of a single-threaded caller
MainThread == CHOOSE t \in Threads : \A u \in Threads : t <= u

ConnTypes == {"get", "post", "put", "delete", "GET"}
Options == {"cluster/status", "nodes/pve/qemu/100/status/start"}
PostDatas == {None, Dict([target |-> Str("pve2")])}

(***************************************************************************)
(* HTTP requests as the requests library is asked to send them.           *)
(***************************************************************************)
NoReq == [verb |-> "none"]
NoCookies == Dict(<<>>)

Request(verb, url, data, cookies, headers) ==
    [verb |-> verb, url |-> url, verify |-> FALSE, data |-> data,
     cookies |-> cookies, headers |-> headers]

\* the values of header name in a request
HeaderVals(req, name) == {h[2] : h \in {x \in req.headers : x[1] = name}}

(***************************************************************************)
(* State.                                                                  *)
(***************************************************************************)
VARIABLES
    auth,         \* the prox_auth object the caller holds, or NoObj
    authArgs,     \* the arguments prox_auth was constructed with
    authOutcome,  \* "none", "ok", or the exception the constructor raised
    authReq,      \* the request the constructor issued
    authPosts,    \* POST requests issued to the access/ticket url so far
    client,       \* the pyproxmox instance, or NoObj
    created,      \* url, ticket and CSRF of the instance when it was built
    pc,           \* per thread: where it is in connect
    call,         \* per thread: the invocation it runs and its arguments
    sent,         \* per thread: the request this invocation issued
    got,          \* per thread: the response to that request
    nsent,        \* per thread: requests issued by this invocation
    cret,         \* per thread: how connect ended
    ret,          \* per thread: how the outermost function ended
    ncalls        \* invocations started

vars == <<auth, authArgs, authOutcome, authReq, authPosts, client, created,
          pc, call, sent, got, nsent, cret, ret, ncalls>>

authVars == <<auth, authArgs, authOutcome, authReq>>
threadVars == <<pc, call, sent, got, nsent, cret, ret, ncalls>>

NoCall == [fn |-> "none"]
NoOutcome == [kind |-> "none"]
Return(v) == [kind |-> "return", v |-> v]
Raise(e) == [kind |-> "raise", exc |-> e]
Exit == [kind |-> "exit"]

Init ==
    /\ auth = NoObj
    /\ authArgs = NoCall
    /\ authOutcome = "none"
    /\ authReq = NoReq
    /\ authPosts = 0
    /\ client = NoObj
    /\ created = NoObj
    /\ pc = [t \in Threads |-> "idle"]
    /\ call = [t \in Threads |-> NoCall]
    /\ sent = [t \in Threads |-> NoReq]
    /\ got = [t \in Threads |-> Unset]
    /\ nsent = [t \in Threads |-> 0]
    /\ cret = [t \in Threads |-> NoOutcome]
    /\ ret = [t \in Threads |-> NoOutcome]
    /\ ncalls = 0

(***************************************************************************)
(* prox_auth.__init__                                                      *)
(***************************************************************************)
\* self.full_url of prox_auth
AuthFullUrl(url) == Format(<<"https://", "%s", ":8006/api2/json/access/ticket">>, <<Str(url)>>)

\* requests.post(self.full_url, verify=False, data=self.connect_data)
AuthRequest(url, username, password) ==
    Request("POST", AuthFullUrl(url),
            Dict([username |-> Str(username), password |-> Str(password)]),
            NoCookies, {})

\* as AuthCredentials, with the two fields of the reply taken for each other
AuthCredentials_Swapped(url, returned_data) ==
    LET d == GetItem(returned_data, "data") IN
    IF ~d.ok THEN Raise(d.exc)
    ELSE LET tk == GetItem(d.v, "CSRFPreventionToken") IN
    IF ~tk.ok THEN Raise(tk.exc)
    ELSE LET cs == GetItem(d.v, "ticket") IN
    IF ~cs.ok THEN Raise(cs.exc)
    ELSE Return([url |-> url,
                 ticket |-> Dict([PVEAuthCookie |-> tk.v]),
                 CSRF |-> cs.v])

\* as AuthCredentials, with a missing field read as None (dict.get) instead
\* of raising
AuthCredentials_Lenient(url, returned_data) ==
    LET d == GetItem(returned_data, "data")
        dv == IF d.ok THEN d.v ELSE None
        tk == GetItem(dv, "ticket")
        cs == GetItem(dv, "CSRFPreventionToken")
    IN Return([url |-> url,
               ticket |-> Dict([PVEAuthCookie |-> IF tk.ok THEN tk.v ELSE None]),
               CSRF |-> IF cs.ok THEN cs.v ELSE None])

\* self.ticket and self.CSRF from the decoded body; a failed lookup raises
AuthCredentials(url, returned_data) ==
    LET d == GetItem(returned_data, "data") IN
    IF ~d.ok THEN Raise(d.exc)
    ELSE LET tk == GetItem(d.v, "ticket") IN
    IF ~tk.ok THEN Raise(tk.exc)
    ELSE LET cs == GetItem(d.v, "CSRFPreventionToken") IN
    IF ~cs.ok THEN Raise(cs.exc)
    ELSE Return([url |-> url,
                 ticket |-> Dict([PVEAuthCookie |-> tk.v]),
                 CSRF |-> cs.v])

\* the constructor from the reply on: the object, or the exception that
\* leaves the constructor
AuthConstruct(url, reply) ==
    IF reply = TransportError THEN Raise("ConnectionError")
    ELSE LET j == ResponseJson(reply) IN
         IF ~j.ok THEN Raise(j.exc) ELSE AuthCredentials(url, j.v)

prox_auth_init(url, username, password) ==
    /\ authOutcome = "none"
    /\ \E reply \in AuthReplies :
         LET r == AuthConstruct(url, reply) IN
         /\ authArgs' = [fn |-> "prox_auth", url |-> url,
                         username |-> username, password |-> password,
                         reply |-> reply]
         /\ authReq' = AuthRequest(url, username, password)
         /\ authPosts' = authPosts + 1
         /\ auth' = IF r.kind = "return" THEN r.v ELSE NoObj
         /\ authOutcome' = IF r.kind = "return" THEN "ok" ELSE r.exc
    /\ UNCHANGED <<client, created>>
    /\ UNCHANGED threadVars

(***************************************************************************)
(* pyproxmox.__init__                                                      *)
(***************************************************************************)
pyproxmox_new(auth_class) ==
    [url |-> auth_class.url, ticket |-> auth_class.ticket,
     CSRF |-> auth_class.CSRF,
     full_url |-> Unset, response |-> Unset, returned_data |-> Unset]

Credentials(self) == [url |-> self.url, ticket |-> self.ticket, CSRF |-> self.CSRF]

pyproxmox_init ==
    /\ auth # NoObj
    /\ client = NoObj
    /\ client' = pyproxmox_new(auth)
    /\ created' = Credentials(client')
    /\ UNCHANGED authVars
    /\ UNCHANGED authPosts
    /\ UNCHANGED threadVars

(***************************************************************************)
(* pyproxmox.connect                                                       *)
(***************************************************************************)
\* as FullUrl, the prefix written without its trailing slash
FullUrl_NoSeparator(url, option) ==
    Format(<<"https://", "%s", ":8006/api2/json", "%s">>, <<Str(url), Str(option)>>)

\* self.full_url of connect
FullUrl(url, option) ==
    Format(<<"https://", "%s", ":8006/api2/json/", "%s">>, <<Str(url), Str(option)>>)

BaseHeaders ==
    { <<"Accept", "application/json">>,
      <<"Content-Type", "application/x-www-form-urlencoded">> }

CsrfHeaders(self) ==
    BaseHeaders \cup { <<"CSRFPreventionToken", PyStr(self.CSRF)>> }

\* as BuildRequest, the get branch passing the headers of the other branches
BuildRequest_CsrfOnGet(self, conn_type, post_data) ==
    CASE conn_type = "post" ->
           Request("POST", self.full_url.s, post_data, self.ticket, CsrfHeaders(self))
      [] conn_type = "put" ->
           Request("PUT", self.full_url.s, post_data, self.ticket, CsrfHeaders(self))
      [] conn_type = "delete" ->
           Request("DELETE", self.full_url.s, post_data, self.ticket, CsrfHeaders(self))
      [] conn_type = "get" ->
           Request("GET", self.full_url.s, None, self.ticket, CsrfHeaders(self))
      [] OTHER -> NoReq

\* as BuildRequest, the get branch passing no cookies
BuildRequest_NoCookieOnGet(self, conn_type, post_data) ==
    CASE conn_type = "post" ->
           Request("POST", self.full_url.s, post_data, self.ticket, CsrfHeaders(self))
      [] conn_type = "put" ->
           Request("PUT", self.full_url.s, post_data, self.ticket, CsrfHeaders(self))
      [] conn_type = "delete" ->
           Request("DELETE", self.full_url.s, post_data, self.ticket, CsrfHeaders(self))
      [] conn_type = "get" ->
           Request("GET", self.full_url.s, None, NoCookies, {})
      [] OTHER -> NoReq

\* the request the branch for conn_type issues, NoReq when no branch matches
BuildRequest(self, conn_type, post_data) ==
    CASE conn_type = "post" ->
           Request("POST", self.full_url.s, post_data, self.ticket, CsrfHeaders(self))
      [] conn_type = "put" ->
           Request("PUT", self.full_url.s, post_data, self.ticket, CsrfHeaders(self))
      [] conn_type = "delete" ->
           Request("DELETE", self.full_url.s, post_data, self.ticket, CsrfHeaders(self))
      [] conn_type = "get" ->
           Request("GET", self.full_url.s, None, self.ticket, {})
      [] OTHER -> NoReq

\* as StoreResponse, the response also written over the CSRF token
StoreResponse_ClobbersCsrf(self, reply) ==
    [self EXCEPT !.response = reply, !.CSRF = Str(reply.body)]

\* self.response = requests.<verb>(...), once the response is there
StoreResponse(self, reply) == [self EXCEPT !.response = reply]

\* try: self.returned_data = self.response.json() ... except: print(...)
JsonStep(self) ==
    IF self.response = Unset
    THEN \* AttributeError in the try, and again at print(self.response)
         [self |-> self, done |-> TRUE, out |-> Raise("AttributeError")]
    ELSE LET j == ResponseJson(self.response) IN
         IF j.ok
         THEN [self |-> [self EXCEPT !.returned_data = j.v],
               done |-> FALSE, out |-> NoOutcome]
         ELSE \* the except branch prints and falls off the end of connect
              [self |-> self, done |-> TRUE, out |-> Return(None)]

(***************************************************************************)
(* The endpoint wrappers: verb, path template, number of arguments the    *)
(* template takes, and how post_data is built (None, the last argument,   *)
(* or {key: str(last argument)}).                                         *)
(***************************************************************************)
Wrappers == <<
    [name |-> "getClusterStatus", verb |-> "get",
     tmpl |-> <<"cluster/status">>, nfmt |-> 0, body |-> "none", key |-> ""],
    [name |-> "getClusterBackupSchedule", verb |-> "get",
     tmpl |-> <<"cluster/backup">>, nfmt |-> 0, body |-> "none", key |-> ""],
    [name |-> "getClusterVmNextId", verb |-> "get",
     tmpl |-> <<"cluster/nextid">>, nfmt |-> 0, body |-> "none", key |-> ""],
    [name |-> "getVm", verb |-> "get",
     tmpl |-> <<"nodes/pve/qemu">>, nfmt |-> 0, body |-> "none", key |-> ""],
    [name |-> "getNodeNetworks", verb |-> "get",
     tmpl |-> <<"nodes/", "%s", "/network">>, nfmt |-> 1, body |-> "none", key |-> ""],
    [name |-> "getNodeInterface", verb |-> "get",
     tmpl |-> <<"nodes/", "%s", "/network/", "%s">>, nfmt |-> 2, body |-> "none", key |-> ""],
    [name |-> "getNodeContainerIndex", verb |-> "get",
     tmpl |-> <<"nodes/", "%s", "/openvz">>, nfmt |-> 1, body |-> "none", key |-> ""],
    [name |-> "getNodeVirtualIndex", verb |-> "get",
     tmpl |-> <<"nodes/", "%s", "/qemu">>, nfmt |-> 1, body |-> "none", key |-> ""],
    [name |-> "getNodeServiceList", verb |-> "get",
     tmpl |-> <<"nodes/", "%s", "/services">>, nfmt |-> 1, body |-> "none", key |-> ""],
    [name |-> "getNodeServiceState", verb |-> "get",
     tmpl |-> <<"nodes/", "%s", "/services/", "%s", "/state">>, nfmt |-> 2, body |-> "none", key |-> ""],
    [name |-> "getNodeStorage", verb |-> "get",
     tmpl |-> <<"nodes/", "%s", "/storage">>, nfmt |-> 1, body |-> "none", key |-> ""],
    [name |-> "getNodeFinishedTasks", verb |-> "get",
     tmpl |-> <<"nodes/", "%s", "/tasks">>, nfmt |-> 1, body |-> "none", key |-> ""],
    [name |-> "getNodeDNS", verb |-> "get",
     tmpl |-> <<"nodes/", "%s", "/dns">>, nfmt |-> 1, body |-> "none", key |-> ""],
    [name |-> "getNodeStatus", verb |-> "get",
     tmpl |-> <<"nodes/", "%s", "/status">>, nfmt |-> 1, body |-> "none", key |-> ""],
    [name |-> "getNodeSyslog", verb |-> "get",
     tmpl |-> <<"nodes/", "%s", "/syslog">>, nfmt |-> 1, body |-> "none", key |-> ""],
    [name |-> "getNodeRRD", verb |-> "get",
     tmpl |-> <<"nodes/", "%s", "/rrd">>, nfmt |-> 1, body |-> "none", key |-> ""],
    [name |-> "getNodeRRDData", verb |-> "get",
     tmpl |-> <<"nodes/", "%s", "/rrddata">>, nfmt |-> 1, body |-> "none", key |-> ""],
    [name |-> "getNodeBeans", verb |-> "get",
     tmpl |-> <<"nodes/", "%s", "/ubfailcnt">>, nfmt |-> 1, body |-> "none", key |-> ""],
    [name |-> "getNodeTaskByUPID", verb |-> "get",
     tmpl |-> <<"nodes/", "%s", "/tasks/", "%s">>, nfmt |-> 2, body |-> "none", key |-> ""],
    [name |-> "getNodeTaskLogByUPID", verb |-> "get",
     tmpl |-> <<"nodes/", "%s", "/tasks/", "%s", "/log">>, nfmt |-> 2, body |-> "none", key |-> ""],
    [name |-> "getNodeTaskStatusByUPID", verb |-> "get",
     tmpl |-> <<"nodes/", "%s", "/tasks/", "%s", "/status">>, nfmt |-> 2, body |-> "none", key |-> ""],
    [name |-> "getNodeScanMethods", verb |-> "get",
     tmpl |-> <<"nodes/", "%s", "/scan">>, nfmt |-> 1, body |-> "none", key |-> ""],
    [name |-> "getRemoteiSCSI", verb |-> "get",
     tmpl |-> <<"nodes/", "%s", "/scan/iscsi">>, nfmt |-> 1, body |-> "none", key |-> ""],
    [name |-> "getNodeLVMGroups", verb |-> "get",
     tmpl |-> <<"nodes/", "%s", "/scan/lvm">>, nfmt |-> 1, body |-> "none", key |-> ""],
    [name |-> "getRemoteNFS", verb |-> "get",
     tmpl |-> <<"nodes/", "%s", "/scan/nfs">>, nfmt |-> 1, body |-> "none", key |-> ""],
    [name |-> "getNodeUSB", verb |-> "get",
     tmpl |-> <<"nodes/", "%s", "/scan/usb">>, nfmt |-> 1, body |-> "none", key |-> ""],
    [name |-> "getContainerIndex", verb |-> "get",
     tmpl |-> <<"nodes/", "%s", "/openvz/", "%s">>, nfmt |-> 2, body |-> "none", key |-> ""],
    [name |-> "getContainerStatus", verb |-> "get",
     tmpl |-> <<"nodes/", "%s", "/openvz/", "%s", "/status/current">>, nfmt |-> 2, body |-> "none", key |-> ""],
    [name |-> "getContainerBeans", verb |-> "get",
     tmpl |-> <<"nodes/", "%s", "/openvz/", "%s", "/status/ubc">>, nfmt |-> 2, body |-> "none", key |-> ""],
    [name |-> "getContainerConfig", verb |-> "get",
     tmpl |-> <<"nodes/", "%s", "/openvz/", "%s", "/config">>, nfmt |-> 2, body |-> "none", key |-> ""],
    [name |-> "getContainerInitLog", verb |-> "get",
     tmpl |-> <<"nodes/", "%s", "/openvz/", "%s", "/initlog">>, nfmt |-> 2, body |-> "none", key |-> ""],
    [name |-> "getContainerRRD", verb |-> "get",
     tmpl |-> <<"nodes/", "%s", "/openvz/", "%s", "/rrd">>, nfmt |-> 2, body |-> "none", key |-> ""],
    [name |-> "getContainerRRDData", verb |-> "get",
     tmpl |-> <<"nodes/", "%s", "/openvz/", "%s", "/rrddata">>, nfmt |-> 2, body |-> "none", key |-> ""],
    [name |-> "getVirtualIndex", verb |-> "get",
     tmpl |-> <<"nodes/", "%s", "/qemu/", "%s">>, nfmt |-> 2, body |-> "none", key |-> ""],
    [name |-> "getVirtualStatus", verb |-> "get",
     tmpl |-> <<"nodes/", "%s", "/qemu/", "%s", "/status/current">>, nfmt |-> 2, body |-> "none", key |-> ""],
    [name |-> "getVirtualInfo", verb |-> "get",
     tmpl |-> <<"nodes/", "%s", "/qemu/", "%s", "/", "%s">>, nfmt |-> 3, body |-> "none", key |-> ""],
    [name |-> "getVirtualConfig", verb |-> "get",
     tmpl |-> <<"nodes/", "%s", "/qemu/", "%s", "/config">>, nfmt |-> 2, body |-> "none", key |-> ""],
    [name |-> "getVirtualRRD", verb |-> "get",
     tmpl |-> <<"nodes/", "%s", "/qemu/", "%s", "/rrd">>, nfmt |-> 2, body |-> "none", key |-> ""],
    [name |-> "getVirtualRRDData", verb |-> "get",
     tmpl |-> <<"nodes/", "%s", "/qemu/", "%s", "/rrddata">>, nfmt |-> 2, body |-> "none", key |-> ""],
    [name |-> "getStorageVolumeData", verb |-> "get",
     tmpl |-> <<"nodes/", "%s", "/storage/", "%s", "/content/", "%s">>, nfmt |-> 3, body |-> "none", key |-> ""],
    [name |-> "getStorageConfig", verb |-> "get",
     tmpl |-> <<"storage/", "%s">>, nfmt |-> 1, body |-> "none", key |-> ""],
    [name |-> "getNodeStorageContent", verb |-> "get",
     tmpl |-> <<"nodes/", "%s", "/storage/", "%s", "/content">>, nfmt |-> 2, body |-> "none", key |-> ""],
    [name |-> "getNodeStorageRRD", verb |-> "get",
     tmpl |-> <<"nodes/", "%s", "/storage/", "%s", "/rrd">>, nfmt |-> 2, body |-> "none", key |-> ""],
    [name |-> "getNodeStorageRRDData", verb |-> "get",
     tmpl |-> <<"nodes/", "%s", "/storage/", "%s", "/rrddata">>, nfmt |-> 2, body |-> "none", key |-> ""],
    [name |-> "createOpenvzContainer", verb |-> "post",
     tmpl |-> <<"nodes/", "%s", "/openvz">>, nfmt |-> 1, body |-> "arg", key |-> ""],
    [name |-> "mountOpenvzPrivate", verb |-> "post",
     tmpl |-> <<"nodes/", "%s", "/openvz/", "%s", "/status/mount">>, nfmt |-> 2, body |-> "none", key |-> ""],
    [name |-> "shutdownOpenvzContainer", verb |-> "post",
     tmpl |-> <<"nodes/", "%s", "/openvz/", "%s", "/status/shutdown">>, nfmt |-> 2, body |-> "none", key |-> ""],
    [name |-> "startOpenvzContainer", verb |-> "post",
     tmpl |-> <<"nodes/", "%s", "/openvz/", "%s", "/status/start">>, nfmt |-> 2, body |-> "none", key |-> ""],
    [name |-> "stopOpenvzContainer", verb |-> "post",
     tmpl |-> <<"nodes/", "%s", "/openvz/", "%s", "/status/stop">>, nfmt |-> 2, body |-> "none", key |-> ""],
    [name |-> "unmountOpenvzPrivate", verb |-> "post",
     tmpl |-> <<"nodes/", "%s", "/openvz/", "%s", "/status/unmount">>, nfmt |-> 2, body |-> "none", key |-> ""],
    [name |-> "migrateOpenvzContainer", verb |-> "post",
     tmpl |-> <<"nodes/", "%s", "/openvz/", "%s", "/migrate">>, nfmt |-> 2, body |-> "key", key |-> "target"],
    [name |-> "createVirtualMachine", verb |-> "post",
     tmpl |-> <<"nodes/", "%s", "/qemu">>, nfmt |-> 1, body |-> "arg", key |-> ""],
    [name |-> "resetVirtualMachine", verb |-> "post",
     tmpl |-> <<"nodes/", "%s", "/qemu/", "%s", "/status/reset">>, nfmt |-> 2, body |-> "none", key |-> ""],
    [name |-> "resumeVirtualMachine", verb |-> "post",
     tmpl |-> <<"nodes/", "%s", "/qemu/", "%s", "/status/resume">>, nfmt |-> 2, body |-> "none", key |-> ""],
    [name |-> "shutdownVirtualMachine", verb |-> "post",
     tmpl |-> <<"nodes/", "%s", "/qemu/", "%s", "/status/shutdown">>, nfmt |-> 2, body |-> "none", key |-> ""],
    [name |-> "startVirtualMachine", verb |-> "post",
     tmpl |-> <<"nodes/", "%s", "/qemu/", "%s", "/status/start">>, nfmt |-> 2, body |-> "none", key |-> ""],
    [name |-> "stopVirtualMachine", verb |-> "post",
     tmpl |-> <<"nodes/", "%s", "/qemu/", "%s", "/status/stop">>, nfmt |-> 2, body |-> "none", key |-> ""],
    [name |-> "suspendVirtualMachine", verb |-> "post",
     tmpl |-> <<"nodes/", "%s", "/qemu/", "%s", "/status/suspend">>, nfmt |-> 2, body |-> "none", key |-> ""],
    [name |-> "migrateVirtualMachine", verb |-> "post",
     tmpl |-> <<"nodes/", "%s", "/qemu/", "%s", "/status/start">>, nfmt |-> 2, body |-> "key", key |-> "target"],
    [name |-> "monitorVirtualMachine", verb |-> "post",
     tmpl |-> <<"nodes/", "%s", "/qemu/", "%s", "/monitor">>, nfmt |-> 2, body |-> "key", key |-> "command"],
    [name |-> "vncproxyVirtualMachine", verb |-> "post",
     tmpl |-> <<"nodes/", "%s", "/qemu/", "%s", "/vncproxy">>, nfmt |-> 2, body |-> "none", key |-> ""],
    [name |-> "rollbackVirtualMachine", verb |-> "post",
     tmpl |-> <<"nodes/", "%s", "/qemu/", "%s", "/snapshot/", "%s", "/rollback">>, nfmt |-> 3, body |-> "none", key |-> ""],
    [name |-> "getSnapshotConfigVirtualMachine", verb |-> "get",
     tmpl |-> <<"nodes/", "%s", "/qemu/", "%s", "/snapshot/", "%s", "/config">>, nfmt |-> 3, body |-> "none", key |-> ""],
    [name |-> "deleteOpenvzContainer", verb |-> "delete",
     tmpl |-> <<"nodes/", "%s", "/openvz/", "%s">>, nfmt |-> 2, body |-> "none", key |-> ""],
    [name |-> "deleteNodeNetworkConfig", verb |-> "delete",
     tmpl |-> <<"nodes/", "%s", "/network">>, nfmt |-> 1, body |-> "none", key |-> ""],
    [name |-> "deleteNodeInterface", verb |-> "delete",
     tmpl |-> <<"nodes/", "%s", "/network/", "%s">>, nfmt |-> 2, body |-> "none", key |-> ""],
    [name |-> "deleteVirtualMachine", verb |-> "delete",
     tmpl |-> <<"nodes/", "%s", "/qemu/", "%s">>, nfmt |-> 2, body |-> "none", key |-> ""],
    [name |-> "deletePool", verb |-> "delete",
     tmpl |-> <<"pools/", "%s">>, nfmt |-> 1, body |-> "none", key |-> ""],
    [name |-> "deleteStorageConfiguration", verb |-> "delete",
     tmpl |-> <<"storage/", "%s">>, nfmt |-> 1, body |-> "none", key |-> ""],
    [name |-> "setNodeDNSDomain", verb |-> "put",
     tmpl |-> <<"nodes/", "%s", "/dns">>, nfmt |-> 1, body |-> "key", key |-> "search"],
    [name |-> "setNodeSubscriptionKey", verb |-> "put",
     tmpl |-> <<"nodes/", "%s", "/subscription">>, nfmt |-> 1, body |-> "key", key |-> "key"],
    [name |-> "setNodeTimeZone", verb |-> "put",
     tmpl |-> <<"nodes/", "%s", "/time">>, nfmt |-> 1, body |-> "key", key |-> "timezone"],
    [name |-> "setOpenvzContainerOptions", verb |-> "put",
     tmpl |-> <<"nodes/", "%s", "/openvz/", "%s", "/config">>, nfmt |-> 2, body |-> "arg", key |-> ""],
    [name |-> "setVirtualMachineOptions", verb |-> "put",
     tmpl |-> <<"nodes/", "%s", "/qemu/", "%s", "/config">>, nfmt |-> 2, body |-> "arg", key |-> ""],
    [name |-> "sendKeyEventVirtualMachine", verb |-> "put",
     tmpl |-> <<"nodes/", "%s", "/qemu/", "%s", "/sendkey">>, nfmt |-> 2, body |-> "key", key |-> "key"],
    [name |-> "unlinkVirtualMachineDiskImage", verb |-> "put",
     tmpl |-> <<"nodes/", "%s", "/qemu/", "%s", "/unlink">>, nfmt |-> 2, body |-> "arg", key |-> ""],
    [name |-> "setPoolData", verb |-> "put",
     tmpl |-> <<"pools/", "%s">>, nfmt |-> 1, body |-> "arg", key |-> ""],
    [name |-> "updateStorageConfiguration", verb |-> "put",
     tmpl |-> <<"storage/", "%s">>, nfmt |-> 1, body |-> "arg", key |-> ""]
>>

WrapperNamed(n) == CHOOSE w \in {Wrappers[i] : i \in 1..Len(Wrappers)} : w.name = n

\* as WrapperConnect, the verb of the get wrappers written in upper case
WrapperConnect_UpperVerb(w, args) ==
    [conn_type |-> IF w.verb = "get" THEN "GET" ELSE w.verb,
     option |-> Format(w.tmpl, SubSeq(args, 1, w.nfmt)),
     post_data |->
        CASE w.body = "none" -> None
          [] w.body = "arg" -> args[Len(args)]
          [] w.body = "key" -> Dict(w.key :> Str(PyStr(args[Len(args)])))]

\* what the wrapper passes to connect
WrapperConnect(w, args) ==
    [conn_type |-> w.verb,
     option |-> Format(w.tmpl, SubSeq(args, 1, w.nfmt)),
     post_data |->
        CASE w.body = "none" -> None
          [] w.body = "arg" -> args[Len(args)]
          [] w.body = "key" -> Dict(w.key :> Str(PyStr(args[Len(args)])))]

\* argument values the model passes for path parameters
ArgTuples ==
    { <<Str("pve"), PyInt(100), Str("snap1")>>,
      <<Str("node2"), Str("101"), PyInt(7)>> }
KeyValues == {Str("pve2"), PyInt(7)}

WrapperInputs(w) ==
    LET pathArgs == {SubSeq(a, 1, w.nfmt) : a \in ArgTuples} IN
    CASE w.body = "none" -> pathArgs
      [] w.body = "arg" -> {pa \o <<pd>> : pa \in pathArgs, pd \in PostDatas}
      [] w.body = "key" -> {pa \o <<v>> : pa \in pathArgs, v \in KeyValues}

(***************************************************************************)
(* clusters_lib.py and network_lib.py                                      *)
(***************************************************************************)
LibFunctions == {"list_cluster", "cluster_service", "get_interface",
                 "get_interface_details"}

\* the client method each function calls
LibMethod(f) ==
    CASE f = "list_cluster" -> WrapperNamed("getClusterStatus")
      [] f = "cluster_service" -> WrapperNamed("getNodeServiceList")
      [] f = "get_interface" -> WrapperNamed("getNodeNetworks")
      [] f = "get_interface_details" -> WrapperNamed("getNodeInterface")

\* value[key] as a statement of the function: the item, or the exception
Subscript(out, key) ==
    IF out.kind # "return" THEN out
    ELSE LET i == GetItem(out.v, key) IN
         IF i.ok THEN Return(i.v) ELSE Raise(i.exc)

\* what the function returns, given how the client method ended
LibReturn(f, out) ==
    CASE f = "list_cluster" -> out
      [] f = "cluster_service" -> Subscript(out, "data")
      [] f = "get_interface" -> Subscript(out, "data")
      [] f = "get_interface_details" -> Subscript(out, "data")

\* login_lib.load_dumped_session(): the client rebuilt from the stored
\* session credentials; raises when there are none
load_dumped_session(stored) ==
    IF stored = NoObj THEN Raise("Exception") ELSE Return(pyproxmox_new(stored))

\* get_auth(): the client, or print the exception and exit()
get_auth(stored) ==
    LET r == load_dumped_session(stored) IN
    IF r.kind = "raise" THEN Exit ELSE r

(***************************************************************************)
(* Actions.  An invocation starts with the statements that touch no       *)
(* shared state and the assignment of self.full_url (line 69); the        *)
(* request, the arrival of the response, the decoding and the return are  *)
(* steps of their own, between which another thread may run.              *)
(***************************************************************************)
Running == \A t \in Threads : pc[t] # "exited"

ConnectCall(fn, name, conn_type, option, post_data, args) ==
    [fn |-> fn, name |-> name, conn_type |-> conn_type, option |-> option,
     post_data |-> post_data, args |-> args]

\* `return data` of a wrapper
WrapperReturn(out) == out

\* how the outermost function ends, given how connect ended
Outer(c, out) ==
    CASE c.fn = "connect" -> out
      [] c.fn = "wrapper" -> WrapperReturn(out)
      [] c.fn = "lib" -> LibReturn(c.name, WrapperReturn(out))

Begin(t, c) ==
    /\ pc[t] = "idle"
    /\ ncalls < MaxCalls
    /\ call' = [call EXCEPT ![t] = c]
    /\ sent' = [sent EXCEPT ![t] = NoReq]
    /\ got' = [got EXCEPT ![t] = Unset]
    /\ nsent' = [nsent EXCEPT ![t] = 0]
    /\ cret' = [cret EXCEPT ![t] = NoOutcome]
    /\ ncalls' = ncalls + 1
    /\ UNCHANGED authVars
    /\ UNCHANGED authPosts

\* connect entered on instance self: line 69
Enter(t, c, self) ==
    /\ Begin(t, c)
    /\ client' = [self EXCEPT !.full_url = Str(FullUrl(self.url, c.option))]
    /\ pc' = [pc EXCEPT ![t] = "send"]
    /\ ret' = [ret EXCEPT ![t] = NoOutcome]

Finish(t, out) ==
    /\ cret' = [cret EXCEPT ![t] = out]
    /\ ret' = [ret EXCEPT ![t] = Outer(call[t], out)]
    /\ pc' = [pc EXCEPT ![t] = "idle"]

connect_call(t, conn_type, option, post_data) ==
    /\ client # NoObj
    /\ Enter(t, ConnectCall("connect", "connect", conn_type, option, post_data, <<>>),
             client)
    /\ UNCHANGED created

wrapper_call(t, w, args) ==
    /\ client # NoObj
    /\ LET a == WrapperConnect(w, args) IN
       Enter(t, ConnectCall("wrapper", w.name, a.conn_type, a.option, a.post_data, args),
             client)
    /\ UNCHANGED created

lib_call(t, f, args) ==
    LET g == get_auth(auth)
        a == WrapperConnect(LibMethod(f), args)
        c == ConnectCall("lib", f, a.conn_type, a.option, a.post_data, args)
    IN
    \/ /\ g = Exit
       /\ Begin(t, c)
       /\ pc' = [pc EXCEPT ![t] = "exited"]
       /\ ret' = [ret EXCEPT ![t] = Exit]
       /\ UNCHANGED <<client, created>>
    \/ /\ g # Exit
       /\ Enter(t, c, g.v)
       /\ created' = Credentials(g.v)

\* lines 71-94: the branch on conn_type issues the request, if any matches
connect_send(t) ==
    /\ pc[t] = "send"
    /\ LET req == BuildRequest(client, call[t].conn_type, call[t].post_data) IN
       \/ /\ req = NoReq
          /\ pc' = [pc EXCEPT ![t] = "json"]
          /\ UNCHANGED <<sent, nsent, authPosts>>
       \/ /\ req # NoReq
          /\ sent' = [sent EXCEPT ![t] = req]
          /\ nsent' = [nsent EXCEPT ![t] = @ + 1]
          /\ authPosts' = IF req.verb = "POST" /\ req.url = AuthFullUrl(client.url)
                          THEN authPosts + 1 ELSE authPosts
          /\ pc' = [pc EXCEPT ![t] = "wait"]
    /\ UNCHANGED authVars
    /\ UNCHANGED <<client, created, call, got, cret, ret, ncalls>>

\* the request completes: requests raises, or its response is stored
connect_recv(t) ==
    /\ pc[t] = "wait"
    /\ \E reply \in ApiReplies :
         \/ /\ reply = TransportError
            /\ Finish(t, Raise("ConnectionError"))
            /\ UNCHANGED <<client, got>>
         \/ /\ reply # TransportError
            /\ client' = StoreResponse(client, reply)
            /\ got' = [got EXCEPT ![t] = reply]
            /\ pc' = [pc EXCEPT ![t] = "json"]
            /\ UNCHANGED <<cret, ret>>
    /\ UNCHANGED authVars
    /\ UNCHANGED <<authPosts, created, call, sent, nsent, ncalls>>

\* lines 96-101
connect_json(t) ==
    /\ pc[t] = "json"
    /\ LET j == JsonStep(client) IN
       \/ /\ j.done
          /\ Finish(t, j.out)
          /\ UNCHANGED client
       \/ /\ ~j.done
          /\ client' = j.self
          /\ pc' = [pc EXCEPT ![t] = "return"]
          /\ UNCHANGED <<cret, ret>>
    /\ UNCHANGED authVars
    /\ UNCHANGED <<authPosts, created, call, sent, got, nsent, ncalls>>

\* line 98: return self.returned_data
connect_return(t) ==
    /\ pc[t] = "return"
    /\ Finish(t, Return(client.returned_data))
    /\ UNCHANGED authVars
    /\ UNCHANGED <<authPosts, client, created, call, sent, got, nsent, ncalls>>

Construct ==
    /\ Running
    /\ \/ \E h \in Hosts, u \in Usernames, p \in Passwords : prox_auth_init(h, u, p)
       \/ pyproxmox_init

Step ==
    \E t \in Threads :
        connect_send(t) \/ connect_recv(t) \/ connect_json(t) \/ connect_return(t)

(***************************************************************************)
(* Spec: a single-threaded caller; every invocation runs to its end       *)
(* before the next begins.                                                 *)
(***************************************************************************)
Next ==
    \/ Construct
    \/ \E c \in ConnTypes, o \in Options, d \in PostDatas :
          connect_call(MainThread, c, o, d)
    \/ \E i \in 1..Len(Wrappers) : \E args \in WrapperInputs(Wrappers[i]) :
          wrapper_call(MainThread, Wrappers[i], args)
    \/ \E f \in LibFunctions :
          \E args \in {SubSeq(a, 1, LibMethod(f).nfmt) : a \in ArgTuples} :
             lib_call(MainThread, f, args)
    \/ Step

Spec == Init /\ [][Next]_vars

(***************************************************************************)
(* SpecConc: two threads call connect on the same instance, their steps   *)
(* interleaved.                                                            *)
(***************************************************************************)
ConcConnTypes == {"get", "post"}

NextConc ==
    \/ Construct
    \/ \E t \in Threads : \E c \in ConcConnTypes, o \in Options :
          connect_call(t, c, o, None)
    \/ Step

SpecConc == Init /\ [][NextConc]_vars

(***************************************************************************)
(* Properties.                                                             *)
(***************************************************************************)
\* thread t has run an invocation of connect to its end
Done(t) == pc[t] = "idle" /\ cret[t] # NoOutcome

\* the authentication reply carries both data.ticket and
\* data.CSRFPreventionToken
HasTicketAndToken(reply) ==
    /\ reply # TransportError
    /\ reply.body \in {AuthBody1, AuthBody2}

\* the ticket and the token the server issued, as they stand in the reply
IssuedTicket == IF authArgs.reply.body = AuthBody1 THEN "T1" ELSE "T2"
IssuedToken == IF authArgs.reply.body = AuthBody1 THEN "C1" ELSE "C2"

ApiPrefix(host) == "https://" \o host \o ":8006/api2/json/"

HttpVerb(conn_type) ==
    CASE conn_type = "get" -> "GET" [] conn_type = "post" -> "POST"
      [] conn_type = "put" -> "PUT" [] conn_type = "delete" -> "DELETE"

\* C1: every request connect issues with POST, PUT or DELETE carries exactly
\* one CSRFPreventionToken header, whose value is the token the server issued
\* at session establishment; every GET request carries none.
C1_CsrfOnMutatingOnly ==
    \A t \in Threads :
        sent[t] # NoReq =>
            /\ sent[t].verb \in {"GET", "POST", "PUT", "DELETE"}
            /\ sent[t].verb \in {"POST", "PUT", "DELETE"} =>
                   HeaderVals(sent[t], "CSRFPreventionToken") = {IssuedToken}
            /\ sent[t].verb = "GET" =>
                   HeaderVals(sent[t], "CSRFPreventionToken") = {}

\* a second call of the sequence, a DELETE, has gone out with the token
C1_Witness ==
    /\ ncalls = 2
    /\ sent[MainThread] # NoReq
    /\ sent[MainThread].verb = "DELETE"
    /\ HeaderVals(sent[MainThread], "CSRFPreventionToken") = {"C2"}

\* C2: when the body of the response to a dispatched request is not valid
\* JSON, connect ends by raising MalformedResponse to its caller; it does not
\* return a value.
C2_MalformedResponseSignalled ==
    \A t \in Threads :
        (Done(t) /\ got[t] # Unset /\ ~ResponseJson(got[t]).ok) =>
            cret[t] = Raise("MalformedResponse")

\* C3: constructing prox_auth issues exactly one request, a POST to
\* https://{host}:8006/api2/json/access/ticket with the form fields username
\* and password; when the reply carries ticket T and token C the object holds
\* T under PVEAuthCookie and C as CSRF.
C3_SessionEstablishment ==
    authOutcome # "none" =>
        /\ authReq.verb = "POST"
        /\ authReq.url = "https://" \o authArgs.url \o ":8006/api2/json/access/ticket"
        /\ authReq.data = Dict([username |-> Str(authArgs.username),
                                password |-> Str(authArgs.password)])
        /\ client = NoObj => authPosts = 1
        /\ HasTicketAndToken(authArgs.reply) =>
              /\ authOutcome = "ok"
              /\ auth.url = authArgs.url
              /\ auth.ticket = Dict([PVEAuthCookie |-> Str(IssuedTicket)])
              /\ auth.CSRF = Str(IssuedToken)

C3_Witness ==
    /\ authOutcome = "ok"
    /\ authArgs.reply.body = AuthBody2
    /\ auth.ticket = Dict([PVEAuthCookie |-> Str("T2")])
    /\ auth.CSRF = Str("C2")

C5_CredentialsImmutable ==
    client # NoObj =>
        /\ Credentials(client) = created
        /\ created = [url |-> auth.url, ticket |-> auth.ticket, CSRF |-> auth.CSRF]

\* a first call has returned a value and a second one has failed
C5_Witness ==
    /\ ncalls = 2
    /\ Done(MainThread)
    /\ cret[MainThread] = Raise("ConnectionError")
    /\ client.response # Unset
    /\ client.returned_data # Unset

C7_ConcurrentDispatchesIndependent ==
    \A t \in Threads :
        /\ sent[t] # NoReq => sent[t].url = ApiPrefix(client.url) \o call[t].option
        /\ (Done(t) /\ cret[t].kind = "return" /\ got[t] # Unset
              /\ ResponseJson(got[t]).ok) =>
               cret[t].v = ResponseJson(got[t]).v

\* C8: an invocation of an endpoint wrapper issues exactly one request, with
\* the wrapper's verb and to the URL of its path template filled from the
\* arguments, and ends as connect ended; a returned value is the decoded body
\* of the response to that request.  getClusterStatus issues a GET to
\* https://{host}:8006/api2/json/cluster/status with the session cookie and
\* no CSRFPreventionToken header.
C8_WrapperIsOneDispatch ==
    \A t \in Threads :
        call[t].fn = "wrapper" =>
            LET w == WrapperNamed(call[t].name) IN
            /\ pc[t] # "send" => nsent[t] = 1
            /\ sent[t] # NoReq =>
                  /\ sent[t].verb = HttpVerb(w.verb)
                  /\ sent[t].url = ApiPrefix(client.url)
                                     \o Format(w.tmpl, SubSeq(call[t].args, 1, w.nfmt))
            /\ Done(t) =>
                  /\ ret[t] = cret[t]
                  /\ (cret[t].kind = "return" /\ ResponseJson(got[t]).ok) =>
                        cret[t].v = ResponseJson(got[t]).v
            /\ (call[t].name = "getClusterStatus" /\ sent[t] # NoReq) =>
                  /\ sent[t].verb = "GET"
                  /\ sent[t].url = "https://" \o client.url
                                     \o ":8006/api2/json/cluster/status"
                  /\ sent[t].cookies = Dict([PVEAuthCookie |-> Str(IssuedTicket)])
                  /\ HeaderVals(sent[t], "CSRFPreventionToken") = {}
            /\ (call[t].name = "getNodeInterface" /\ sent[t] # NoReq
                  /\ call[t].args = <<Str("pve"), PyInt(100)>>) =>
                  sent[t].url = "https://" \o client.url
                                  \o ":8006/api2/json/nodes/pve/network/100"

\* getClusterStatus has returned the decoded envelope of its response
C8_Witness ==
    /\ Done(MainThread)
    /\ call[MainThread].name = "getClusterStatus"
    /\ call[MainThread].fn = "wrapper"
    /\ sent[MainThread].url = "https://pve1:8006/api2/json/cluster/status"
    /\ got[MainThread] = Response(200, DataD1)
    /\ ret[MainThread] = Return(Dict([data |-> Str("D1")]))

\* the URL has no "//" after the one of the scheme
NoDoubledSlash(u) == \A i \in 8..(Len(u) - 1) : SubSeq(u, i, i + 1) # "//"

\* C9: the URL connect requests is "https://" + host + ":8006/api2/json/" +
\* path for every verb and body: one slash between prefix and path, no
\* doubled slash.
C9_UrlIsPrefixPlusPath ==
    \A t \in Threads :
        sent[t] # NoReq =>
            LET u == sent[t].url
                n == Len("https://") + Len(client.url) + Len(":8006/api2/json/")
            IN
            /\ u = "https://" \o client.url \o ":8006/api2/json/" \o call[t].option
            /\ SubSeq(u, n, n) = "/"
            /\ SubSeq(u, n + 1, Len(u)) = call[t].option
            /\ NoDoubledSlash(u)

C9_Witness ==
    /\ sent[MainThread] # NoReq
    /\ call[MainThread].fn = "connect"
    /\ sent[MainThread].verb = "PUT"
    /\ sent[MainThread].data # None
    /\ sent[MainThread].url
         = "https://10.0.0.2:8006/api2/json/nodes/pve/qemu/100/status/start"

\* C10: a convenience function calls one client method, which issues one
\* request, and returns the data field of the envelope the method returned.
C10_ConvenienceReturnsData ==
    \A t \in Threads :
        (call[t].fn = "lib" /\ Done(t) /\ cret[t].kind = "return"
           /\ cret[t].v.t = "dict" /\ "data" \in DOMAIN cret[t].v.d) =>
            /\ nsent[t] = 1
            /\ ret[t] = Return(cret[t].v.d["data"])

\* C11: migrateVirtualMachine(node, vmid, target) issues exactly one POST,
\* with body target=str(target), to nodes/{node}/qemu/{vmid}/migrate, a path
\* other than the one startVirtualMachine requests for that node and vmid.
C11_MigrateRequestsMigrate ==
    \A t \in Threads :
        (call[t].fn = "wrapper" /\ call[t].name = "migrateVirtualMachine"
           /\ pc[t] # "send") =>
            LET node == PyStr(call[t].args[1])
                vmid == PyStr(call[t].args[2])
                startUrl == ApiPrefix(client.url) \o "nodes/" \o node \o "/qemu/"
                              \o vmid \o "/status/start"
            IN
            /\ nsent[t] = 1
            /\ sent[t].verb = "POST"
            /\ sent[t].data = Dict([target |-> Str(PyStr(call[t].args[3]))])
            /\ sent[t].url = ApiPrefix(client.url) \o "nodes/" \o node \o "/qemu/"
                               \o vmid \o "/migrate"
            /\ sent[t].url # startUrl

\* C12: an invocation of connect issues exactly one request whatever
\* conn_type is, and a value it returns is the decoded body of the response
\* to that request, never of the response to an earlier invocation.
C12_OneRequestOwnResponse ==
    \A t \in Threads :
        (call[t].fn = "connect" /\ Done(t)) =>
            /\ nsent[t] = 1
            /\ cret[t].kind = "return" =>
                  /\ got[t] # Unset
                  /\ ResponseJson(got[t]).ok => cret[t].v = ResponseJson(got[t]).v

=============================================================================
